---- MODULE Spec2Model ----
(***************************************************************************)
(* Model of vandeemter_app.py: a Streamlit script that reads four sliders  *)
(* (A, B, C, current_u), samples the Van Deemter equation                  *)
(* H = A + B/u + C*u on np.linspace(1, 200, 400), reports the sampled      *)
(* minimum (H_min, u_opt) and the plate height H_current at current_u.     *)
(* Streamlit re-executes the whole script after every widget change.       *)
(*                                                                         *)
(* Numbers.  The script computes in IEEE doubles.  The model computes the  *)
(* same expressions in exact rational arithmetic: a number is a record     *)
(* [neg, n, d] standing for (-1)^neg * n / d, where n and d are naturals   *)
(* of arbitrary size written as little-endian sequences of limbs (d > 0).  *)
(* Fractions are not reduced, so equality of numbers is rat_cmp(x, y) = 0, *)
(* never equality of records.  Slider values are kept as integer slider    *)
(* positions: A and B in hundredths, C in thousandths, current_u in units. *)
(***************************************************************************)
EXTENDS Integers, Sequences, FiniteSets, TLC

(***************************************************************************)
(* Program constants: slider ranges, defaults and steps, and the grid.     *)
(***************************************************************************)
A_MIN == 0
A_MAX == 200
A_DEFAULT == 50
A_SCALE == 100
B_MIN == 0
B_MAX == 100
B_DEFAULT == 10
B_SCALE == 100
C_MIN == 0
C_MAX == 100
C_DEFAULT == 10
C_SCALE == 1000
U_MIN == 1
U_MAX == 200
U_DEFAULT == 50
GRID_START == 1
GRID_STOP == 200
GRID_NUM == 400

(***************************************************************************)
(* Bounds of the function-level specification SpecEngine.                  *)
(***************************************************************************)
MaxAbsU == 3
MaxB == 3
MaxC == 2
MaxStart == 2
MaxStop == 4
MaxNum == 4

(***************************************************************************)
(* Exact arithmetic on naturals of arbitrary size.                         *)
(***************************************************************************)
Base == 100 * 100

Max2(x, y) == IF x >= y THEN x ELSE y

Min2(x, y) == IF x <= y THEN x ELSE y

RECURSIVE MagOfNat(_)
MagOfNat(k) == IF k = 0 THEN <<>> ELSE <<k % Base>> \o MagOfNat(k \div Base)

Limb(m, i) == IF i <= Len(m) THEN m[i] ELSE 0

RECURSIVE Carry(_, _, _, _)
Carry(cols, len, i, c) ==
    IF i > len
    THEN IF c = 0 THEN <<>> ELSE <<c % Base>> \o Carry(cols, len, i, c \div Base)
    ELSE LET t == cols[i] + c
         IN  <<t % Base>> \o Carry(cols, len, i + 1, t \div Base)

RECURSIVE Strip(_)
Strip(m) ==
    IF m = <<>> \/ m[Len(m)] # 0 THEN m ELSE Strip(SubSeq(m, 1, Len(m) - 1))

MagAdd(x, y) ==
    LET len == Max2(Len(x), Len(y))
    IN  Carry(SubSeq([i \in 1..len |-> Limb(x, i) + Limb(y, i)], 1, len), len, 1, 0)

RECURSIVE ColSum(_, _, _, _, _)
ColSum(x, y, k, i, hi) ==
    IF i > hi THEN 0 ELSE x[i] * y[k + 1 - i] + ColSum(x, y, k, i + 1, hi)

MagMul(x, y) ==
    IF x = <<>> \/ y = <<>> THEN <<>>
    ELSE LET len == Len(x) + Len(y) - 1
         IN  Carry(SubSeq([k \in 1..len |->
                             ColSum(x, y, k, Max2(1, k + 1 - Len(y)), Min2(Len(x), k))],
                          1, len), len, 1, 0)

RECURSIVE CmpFrom(_, _, _)
CmpFrom(x, y, i) ==
    IF i = 0 THEN 0
    ELSE IF x[i] < y[i] THEN -1
    ELSE IF x[i] > y[i] THEN 1
    ELSE CmpFrom(x, y, i - 1)

MagCmp(x, y) ==
    IF Len(x) < Len(y) THEN -1
    ELSE IF Len(x) > Len(y) THEN 1
    ELSE CmpFrom(x, y, Len(x))

RECURSIVE Borrow(_, _, _, _)
Borrow(x, y, i, b) ==
    IF i > Len(x) THEN <<>>
    ELSE LET t == x[i] - Limb(y, i) - b
         IN  IF t < 0 THEN <<t + Base>> \o Borrow(x, y, i + 1, 1)
                      ELSE <<t>> \o Borrow(x, y, i + 1, 0)

\* x - y for x >= y
MagSub(x, y) == Strip(Borrow(x, y, 1, 0))

(***************************************************************************)
(* Numbers: exact rationals, and the two non-numeric results.              *)
(***************************************************************************)
\* the number k / den, for integers k and den > 0
Rat(k, den) ==
    [neg |-> k < 0, n |-> MagOfNat(IF k < 0 THEN -k ELSE k), d |-> MagOfNat(den)]

\* a name that is not bound (yet)
NoValue == [none |-> TRUE]

\* the exception Python raises for x / 0 on its own numbers
ZeroDivisionError == [raised |-> "ZeroDivisionError"]

IsRaised(x) == "raised" \in DOMAIN x

IsNumber(x) == DOMAIN x = {"neg", "n", "d"}

IsZero(x) == x.n = <<>>

\* x * y
rat_mul(x, y) ==
    LET n == MagMul(x.n, y.n)
    IN  [neg |-> n # <<>> /\ x.neg # y.neg, n |-> n, d |-> MagMul(x.d, y.d)]

\* x / y on Python numbers: raises for y = 0
rat_truediv(x, y) ==
    IF IsZero(y) THEN ZeroDivisionError
    ELSE LET n == MagMul(x.n, y.d)
         IN  [neg |-> n # <<>> /\ x.neg # y.neg, n |-> n, d |-> MagMul(x.d, y.n)]

\* x + y
rat_add(x, y) ==
    LET p == MagMul(x.n, y.d)
        q == MagMul(y.n, x.d)
        d == MagMul(x.d, y.d)
        c == MagCmp(p, q)
    IN  IF x.neg = y.neg
        THEN LET s == MagAdd(p, q) IN [neg |-> x.neg /\ s # <<>>, n |-> s, d |-> d]
        ELSE IF c = 0 THEN [neg |-> FALSE, n |-> <<>>, d |-> d]
        ELSE IF c > 0 THEN [neg |-> x.neg, n |-> MagSub(p, q), d |-> d]
        ELSE [neg |-> y.neg, n |-> MagSub(q, p), d |-> d]

\* -1, 0 or 1 as x < y, x = y or x > y
rat_cmp(x, y) ==
    IF x.neg /\ ~y.neg THEN -1
    ELSE IF ~x.neg /\ y.neg THEN 1
    ELSE LET c == MagCmp(MagMul(x.n, y.d), MagMul(y.n, x.d))
         IN  IF x.neg THEN -c ELSE c

(***************************************************************************)
(* The script's functions.                                                 *)
(***************************************************************************)
\* Mutants of van_deemter: a product for the quotient; the two variable
\* terms swapped; a default substituted for the undefined value at u = 0.
van_deemter_times(u, a, b, c) ==
    rat_add(rat_add(a, rat_mul(b, u)), rat_mul(c, u))

van_deemter_swapped(u, a, b, c) ==
    LET q == rat_truediv(c, u)
    IN  IF IsRaised(q) THEN q ELSE rat_add(rat_add(a, rat_mul(b, u)), q)

van_deemter_guarded(u, a, b, c) ==
    IF IsZero(u) THEN a
    ELSE rat_add(rat_add(a, rat_truediv(b, u)), rat_mul(c, u))

\* van_deemter(u, A, B, C) on Python numbers: A + B / u + C * u, evaluated
\* left to right; B / u raises ZeroDivisionError for u = 0.
van_deemter(u, a, b, c) ==
    LET q == rat_truediv(b, u)
    IN  IF IsRaised(q) THEN q ELSE rat_add(rat_add(a, q), rat_mul(c, u))

\* van_deemter(u_values, A, B, C) on an ndarray: the same expression, element
\* by element.  numpy does not raise for a zero sample: B / 0 is inf (nan for
\* B = 0), with a RuntimeWarning.  No grid of the model holds a zero sample.
van_deemter_array(us, a, b, c) ==
    SubSeq([i \in 1..Len(us) |->
              IF IsZero(us[i])
              THEN [nonfinite |-> IF IsZero(b) THEN "nan" ELSE "inf"]
              ELSE van_deemter(us[i], a, b, c)],
           1, Len(us))

\* Mutant of linspace: endpoint=False, the step is (stop - start) / num.
linspace_no_endpoint(start, stop, num) ==
    LET step == rat_truediv(Rat(stop - start, 1), Rat(num, 1))
    IN  SubSeq([i \in 1..num |->
                  rat_add(rat_mul(Rat(i - 1, 1), step), Rat(start, 1))],
               1, num)

\* np.linspace(start, stop, num) for integers start, stop and num >= 2:
\* step = (stop - start) / (num - 1), y[i] = i * step + start for i = 0..num-1,
\* and the last sample is set to stop.
linspace(start, stop, num) ==
    LET step == rat_truediv(Rat(stop - start, 1), Rat(num - 1, 1))
    IN  SubSeq([i \in 1..num |->
                  IF i = num THEN Rat(stop, 1)
                  ELSE rat_add(rat_mul(Rat(i - 1, 1), step), Rat(start, 1))],
               1, num)

\* Mutants of np_argmin: the last of several equal minima; np.argmax.
RECURSIVE argmin_last_in(_, _, _)
argmin_last_in(Hs, lo, hi) ==
    IF lo = hi THEN lo
    ELSE LET mid == (lo + hi) \div 2
             l == argmin_last_in(Hs, lo, mid)
             r == argmin_last_in(Hs, mid + 1, hi)
         IN  IF rat_cmp(Hs[r], Hs[l]) <= 0 THEN r ELSE l

np_argmin_last(Hs) == argmin_last_in(Hs, 1, Len(Hs))

RECURSIVE argmax_in(_, _, _)
argmax_in(Hs, lo, hi) ==
    IF lo = hi THEN lo
    ELSE LET mid == (lo + hi) \div 2
             l == argmax_in(Hs, lo, mid)
             r == argmax_in(Hs, mid + 1, hi)
         IN  IF rat_cmp(Hs[r], Hs[l]) > 0 THEN r ELSE l

np_argmax(Hs) == argmax_in(Hs, 1, Len(Hs))

\* np.argmin: the index of the first occurrence of the minimum
RECURSIVE argmin_in(_, _, _)
argmin_in(Hs, lo, hi) ==
    IF lo = hi THEN lo
    ELSE LET mid == (lo + hi) \div 2
             l == argmin_in(Hs, lo, mid)
             r == argmin_in(Hs, mid + 1, hi)
         IN  IF rat_cmp(Hs[r], Hs[l]) < 0 THEN r ELSE l

np_argmin(Hs) == argmin_in(Hs, 1, Len(Hs))

\* np.min: the minimum of the array
RECURSIVE min_in(_, _, _)
min_in(Hs, lo, hi) ==
    IF lo = hi THEN Hs[lo]
    ELSE LET mid == (lo + hi) \div 2
             l == min_in(Hs, lo, mid)
             r == min_in(Hs, mid + 1, hi)
         IN  IF rat_cmp(r, l) < 0 THEN r ELSE l

\* Mutants of np_min: np.max; the first element.
np_max(Hs) == Hs[np_argmax(Hs)]

np_first(Hs) == Hs[1]

np_min(Hs) == min_in(Hs, 1, Len(Hs))

(***************************************************************************)
(* State.                                                                  *)
(***************************************************************************)
VARIABLES
    A, B, C,        \* slider positions: A, B in hundredths, C in thousandths
    current_u,      \* the flow-rate slider (a Python int)
    grid,           \* the arguments <<start, stop, num>> of np.linspace
    u_values,       \* the samples
    H_values,       \* the curve
    H_min, u_opt,   \* the sampled minimum and where it is
    H_current,      \* the plate height at current_u
    outcome,        \* "ok", "ZeroDivisionError", or "pending" before a call
    call            \* "script": a run of the app; "scalar", "curve": one call

vars == <<A, B, C, current_u, grid, u_values, H_values, H_min, u_opt,
          H_current, outcome, call>>

\* the slider values as numbers
A_value == Rat(A, A_SCALE)

B_value == Rat(B, B_SCALE)

C_value == Rat(C, C_SCALE)

\* lines 52-57: the curve and its minimum
ScriptCurve(g, a, b, c) ==
    LET us == linspace(g[1], g[2], g[3])
        Hs == van_deemter_array(us, Rat(a, A_SCALE), Rat(b, B_SCALE), Rat(c, C_SCALE))
    IN  [u_values |-> us, H_values |-> Hs,
         H_min |-> np_min(Hs), u_opt |-> us[np_argmin(Hs)]]

\* line 60: the selected point
ScriptPoint(cu, a, b, c) ==
    van_deemter(Rat(cu, 1), Rat(a, A_SCALE), Rat(b, B_SCALE), Rat(c, C_SCALE))

\* Mutant of Run: the best plate height seen so far is kept across reruns.
RunKeepingBest(a, b, c, cu, crv, pt) ==
    /\ A' = a /\ B' = b /\ C' = c /\ current_u' = cu
    /\ u_values' = crv.u_values
    /\ H_values' = crv.H_values
    /\ H_min' = IF rat_cmp(H_min, crv.H_min) < 0 THEN H_min ELSE crv.H_min
    /\ u_opt' = IF rat_cmp(H_min, crv.H_min) < 0 THEN u_opt ELSE crv.u_opt
    /\ H_current' = IF IsRaised(pt) THEN NoValue ELSE pt
    /\ outcome' = IF IsRaised(pt) THEN pt.raised ELSE "ok"
    /\ UNCHANGED <<grid, call>>

\* One execution of the script on the snapshot (a, b, c, cu), given the curve
\* crv = ScriptCurve(grid, a, b, c) and the point pt = ScriptPoint(cu, a, b, c).
\* A raised exception ends the run at line 60: H_current stays unbound.
Run(a, b, c, cu, crv, pt) ==
    /\ A' = a /\ B' = b /\ C' = c /\ current_u' = cu
    /\ u_values' = crv.u_values
    /\ H_values' = crv.H_values
    /\ H_min' = crv.H_min
    /\ u_opt' = crv.u_opt
    /\ H_current' = IF IsRaised(pt) THEN NoValue ELSE pt
    /\ outcome' = IF IsRaised(pt) THEN pt.raised ELSE "ok"
    /\ UNCHANGED <<grid, call>>

(***************************************************************************)
(* Spec: the application.  Streamlit runs the script once with every       *)
(* slider at its default, and again, top to bottom, after every change of  *)
(* a slider.  The slider positions the model visits:                       *)
(***************************************************************************)
A_positions == {A_MIN, A_DEFAULT}

B_positions == {B_MIN, B_DEFAULT}

C_positions == {1, C_DEFAULT}

\* Mutant of U_positions: the flow-rate slider starts at 0.
U_positions_from_zero == {0, 2, 3, 4, 5, 10, 20, U_DEFAULT, 100, 150, 198, 199, U_MAX}

U_positions == {U_MIN, 2, 3, 4, 5, 10, 20, U_DEFAULT, 100, 150, 198, 199, U_MAX}

\* the first run of the script, with every slider at its default
Init ==
    /\ A = A_DEFAULT /\ B = B_DEFAULT /\ C = C_DEFAULT /\ current_u = U_DEFAULT
    /\ grid = <<GRID_START, GRID_STOP, GRID_NUM>>
    /\ call = "script"
    /\ \E crv \in {ScriptCurve(<<GRID_START, GRID_STOP, GRID_NUM>>,
                                A_DEFAULT, B_DEFAULT, C_DEFAULT)} :
         /\ u_values = crv.u_values
         /\ H_values = crv.H_values
         /\ H_min = crv.H_min
         /\ u_opt = crv.u_opt
    /\ H_current = ScriptPoint(U_DEFAULT, A_DEFAULT, B_DEFAULT, C_DEFAULT)
    /\ outcome = "ok"

ChangeA ==
    \E a \in A_positions \ {A} :
      \E crv \in {ScriptCurve(grid, a, B, C)} :
        \E pt \in {ScriptPoint(current_u, a, B, C)} :
          Run(a, B, C, current_u, crv, pt)

ChangeB ==
    \E b \in B_positions \ {B} :
      \E crv \in {ScriptCurve(grid, A, b, C)} :
        \E pt \in {ScriptPoint(current_u, A, b, C)} :
          Run(A, b, C, current_u, crv, pt)

ChangeC ==
    \E c \in C_positions \ {C} :
      \E crv \in {ScriptCurve(grid, A, B, c)} :
        \E pt \in {ScriptPoint(current_u, A, B, c)} :
          Run(A, B, c, current_u, crv, pt)

\* crv = ScriptCurve(grid, A, B, C): the curve of the unchanged coefficients
ChangeU(crv) ==
    \E cu \in U_positions \ {current_u} :
      \E pt \in {ScriptPoint(cu, A, B, C)} :
        Run(A, B, C, cu, crv, pt)

\* a rerun with no widget changed (the Rerun command, a page reload)
Rerun(crv) ==
    \E pt \in {ScriptPoint(current_u, A, B, C)} :
      Run(A, B, C, current_u, crv, pt)

Next ==
    \/ ChangeA
    \/ ChangeB
    \/ ChangeC
    \/ \E crv \in {ScriptCurve(grid, A, B, C)} : ChangeU(crv) \/ Rerun(crv)

Spec == Init /\ [][Next]_vars

(***************************************************************************)
(* SpecEngine: the script's functions, one call each.  Init draws the      *)
(* call and its arguments; Evaluate is line 60 (van_deemter on a Python    *)
(* number), SampleCurve is lines 52-57 (np.linspace, van_deemter on the    *)
(* array, np.min and np.argmin).                                           *)
(***************************************************************************)
EngineA == {A_MIN, A_DEFAULT}

EngineB == (0..MaxB) \cup {B_DEFAULT}

EngineC == {5 * k : k \in 0..MaxC}

EngineU == ((0 - MaxAbsU)..MaxAbsU) \cup {U_DEFAULT}

EngineGrids ==
    {<<s, e, n>> : s \in 1..MaxStart, e \in 2..MaxStop, n \in 2..MaxNum}
    \cup {<<GRID_START, GRID_STOP, GRID_NUM>>}

InitEngine ==
    /\ A \in EngineA /\ B \in EngineB /\ C \in EngineC
    /\ \/ /\ call = "scalar"
          /\ current_u \in EngineU
          /\ grid = NoValue
       \/ /\ call = "curve"
          /\ current_u = NoValue
          /\ grid \in {g \in EngineGrids : g[1] < g[2]}
    /\ u_values = <<>> /\ H_values = <<>>
    /\ H_min = NoValue /\ u_opt = NoValue /\ H_current = NoValue
    /\ outcome = "pending"

Evaluate ==
    /\ call = "scalar" /\ outcome = "pending"
    /\ \E pt \in {ScriptPoint(current_u, A, B, C)} :
         /\ H_current' = IF IsRaised(pt) THEN NoValue ELSE pt
         /\ outcome' = IF IsRaised(pt) THEN pt.raised ELSE "ok"
    /\ UNCHANGED <<A, B, C, current_u, grid, u_values, H_values, H_min, u_opt, call>>

SampleCurve ==
    /\ call = "curve" /\ outcome = "pending"
    /\ \E crv \in {ScriptCurve(grid, A, B, C)} :
         /\ u_values' = crv.u_values
         /\ H_values' = crv.H_values
         /\ H_min' = crv.H_min
         /\ u_opt' = crv.u_opt
    /\ outcome' = "ok"
    /\ UNCHANGED <<A, B, C, current_u, grid, H_current, call>>

NextEngine == Evaluate \/ SampleCurve

SpecEngine == InitEngine /\ [][NextEngine]_vars

(***************************************************************************)
(* Reference forms used by the properties.  They state what a result must  *)
(* be without calling the function that produced it.                       *)
(***************************************************************************)
Equal(x, y) == rat_cmp(x, y) = 0

\* x - y
rat_sub(x, y) == rat_add(x, [y EXCEPT !.neg = ~y.neg /\ y.n # <<>>])

\* the number n / d for integers n and d # 0
Quotient(n, d) == IF d < 0 THEN Rat(0 - n, 0 - d) ELSE Rat(n, d)

\* A + B/u + C*u for slider positions a, b, c and an integer u # 0, over the
\* common denominator 1000 * u
PlateHeight(u, a, b, c) == Quotient(10 * a * u + 10 * b + c * u * u, 1000 * u)

\* H = A + B/u + C*u for a number u # 0, cleared of the quotient:
\* H * u = A * u + B + C * u * u
OnTheCurve(H, u) ==
    /\ IsNumber(H)
    /\ Equal(rat_mul(H, u),
             rat_add(rat_add(rat_mul(A_value, u), B_value),
                     rat_mul(C_value, rat_mul(u, u))))

\* sample i (from 1) of num evenly spaced samples from start to stop
Sample(start, stop, num, i) ==
    Rat(start * (num - 1) + (i - 1) * (stop - start), num - 1)

ScalarDone == call = "scalar" /\ outcome # "pending"

CurveDone == call = "curve" /\ outcome # "pending"

ProgramGrid == <<GRID_START, GRID_STOP, GRID_NUM>>

\* the indices whose plate height is minimal among the curve
MinimalIndices == {i \in 1..Len(H_values) : Equal(H_values[i], H_min)}

(***************************************************************************)
(* C1.  evaluate(u, A, B, C) returns exactly A + B/u + C*u for every       *)
(* u > 0: for a scalar u and for every sample of a vector u;               *)
(* evaluate(50, 0.5, 0.1, 0.01) = 1.002 and evaluate(u, 0, 0, 0) = 0.      *)
(***************************************************************************)
C1_EvaluateIsTheEquation ==
    /\ (ScalarDone /\ current_u > 0) =>
         /\ outcome = "ok"
         /\ IsNumber(H_current)
         /\ Equal(H_current, PlateHeight(current_u, A, B, C))
         /\ (current_u = 50 /\ A = 50 /\ B = 10 /\ C = 10) =>
              Equal(H_current, Rat(1002, 1000))
         /\ (A = 0 /\ B = 0 /\ C = 0) => IsZero(H_current)
    /\ CurveDone =>
         /\ Len(H_values) = Len(u_values)
         /\ \A i \in 1..Len(u_values) : OnTheCurve(H_values[i], u_values[i])

C1_Witness ==
    /\ ScalarDone /\ current_u = 50 /\ A = 50 /\ B = 10 /\ C = 10
    /\ Equal(H_current, Rat(1002, 1000))

(***************************************************************************)
(* C2.  In every run of the application every u passed to the equation,    *)
(* each of the 400 samples and current_u, is strictly positive, the        *)
(* inputs are within the slider ranges, and no run ends in an error.       *)
(***************************************************************************)
C2_FlowRatePositive ==
    call = "script" =>
      /\ A \in A_MIN..A_MAX /\ B \in B_MIN..B_MAX /\ C \in C_MIN..C_MAX
      /\ current_u \in U_MIN..U_MAX
      /\ current_u > 0
      /\ Len(u_values) = GRID_NUM
      /\ \A i \in 1..Len(u_values) : ~u_values[i].neg /\ ~IsZero(u_values[i])
      /\ \A i \in 1..Len(H_values) : IsNumber(H_values[i])
      /\ outcome = "ok"
      /\ IsNumber(H_current)

C2_Witness ==
    /\ call = "script" /\ current_u = U_MIN /\ B > 0 /\ A # A_DEFAULT
    /\ outcome = "ok" /\ IsNumber(H_current)

(***************************************************************************)
(* C3.  sampleCurve(u_min, u_max, n, A, B, C) returns n pairs (u_i, H_i)   *)
(* with u_i = u_min + i * (u_max - u_min) / (n - 1), so that the first     *)
(* sample is u_min, the last is u_max and the u_i increase strictly, and   *)
(* H_i = evaluate(u_i, A, B, C); the program's curve has u_min = 1,        *)
(* u_max = 200 and n = 400.                                                *)
(***************************************************************************)
C3_SampleCurve ==
    CurveDone =>
      /\ Len(u_values) = grid[3]
      /\ Len(H_values) = grid[3]
      /\ \A i \in 1..Len(u_values) :
           /\ Equal(u_values[i], Sample(grid[1], grid[2], grid[3], i))
           /\ OnTheCurve(H_values[i], u_values[i])
      /\ Equal(u_values[1], Rat(grid[1], 1))
      /\ Equal(u_values[Len(u_values)], Rat(grid[2], 1))
      /\ \A i \in 1..(Len(u_values) - 1) : rat_cmp(u_values[i], u_values[i + 1]) < 0
      /\ grid = ProgramGrid =>
           /\ Len(u_values) = 400
           /\ Equal(u_values[1], Rat(1, 1))
           /\ Equal(u_values[2], Rat(598, 399))
           /\ Equal(u_values[400], Rat(200, 1))

C3_Witness ==
    /\ CurveDone /\ grid = ProgramGrid /\ Len(H_values) = 400
    /\ Equal(u_values[400], Rat(200, 1))

(***************************************************************************)
(* C4.  The reported optimal point (u_opt, H_min) is a pair of the curve   *)
(* and H_min <= H_i for every point of the curve.                          *)
(***************************************************************************)
C4_OptimalPointIsMinimum ==
    CurveDone =>
      /\ \E i \in 1..Len(u_values) :
           Equal(u_values[i], u_opt) /\ Equal(H_values[i], H_min)
      /\ OnTheCurve(H_min, u_opt)
      /\ \A i \in 1..Len(H_values) : rat_cmp(H_min, H_values[i]) <= 0

\* the minimum is inside the curve, with larger plate heights on both sides
C4_Witness ==
    /\ CurveDone /\ grid = ProgramGrid
    /\ rat_cmp(H_min, H_values[1]) < 0
    /\ rat_cmp(H_min, H_values[Len(H_values)]) < 0

(***************************************************************************)
(* C5.  When several points of the curve share the minimal H, the optimal  *)
(* point is the first of them in sample order: the one with the smallest u.*)
(***************************************************************************)
C5_FirstOfEqualMinima ==
    CurveDone =>
      /\ MinimalIndices # {}
      /\ \E i \in MinimalIndices :
           /\ Equal(u_values[i], u_opt)
           /\ \A j \in MinimalIndices : i <= j
      /\ \A j \in MinimalIndices : rat_cmp(u_opt, u_values[j]) <= 0

\* two samples u_i < u_j with u_i * u_j = B / C share the minimum
C5_Witness ==
    /\ CurveDone /\ B > 0 /\ C > 0
    /\ Cardinality(MinimalIndices) = 2
    /\ \E i, j \in MinimalIndices :
         /\ i < j
         /\ Equal(rat_mul(u_values[i], u_values[j]), rat_truediv(B_value, C_value))
         /\ Equal(u_opt, u_values[i])

(***************************************************************************)
(* C6.  For C = 0 and B > 0 the curve decreases strictly and u_opt is the  *)
(* last sample (200 in the program); for B = 0 and C > 0 it increases      *)
(* strictly and u_opt is the first sample (1 in the program).              *)
(***************************************************************************)
C6_MonotoneCurves ==
    CurveDone =>
      /\ (C = 0 /\ B > 0) =>
           /\ \A i \in 1..(Len(H_values) - 1) :
                rat_cmp(H_values[i], H_values[i + 1]) > 0
           /\ Equal(u_opt, Rat(grid[2], 1))
           /\ grid = ProgramGrid => Equal(u_opt, Rat(200, 1))
      /\ (B = 0 /\ C > 0) =>
           /\ \A i \in 1..(Len(H_values) - 1) :
                rat_cmp(H_values[i], H_values[i + 1]) < 0
           /\ Equal(u_opt, Rat(grid[1], 1))
           /\ grid = ProgramGrid => Equal(u_opt, Rat(1, 1))

C6_Witness ==
    /\ CurveDone /\ grid = ProgramGrid /\ C = 0 /\ B > 0
    /\ Equal(u_opt, Rat(200, 1))

(***************************************************************************)
(* C7.  After any sequence of slider changes and reruns, the curve, the    *)
(* optimal point and the selected point are those of one computation on    *)
(* the latest snapshot (A, B, C, current_u): nothing of an earlier run     *)
(* remains in them.                                                        *)
(***************************************************************************)
C7_LatestSnapshotOnly ==
    call = "script" =>
      /\ Len(u_values) = GRID_NUM /\ Len(H_values) = GRID_NUM
      /\ \A i \in 1..GRID_NUM :
           /\ Equal(u_values[i], Sample(GRID_START, GRID_STOP, GRID_NUM, i))
           /\ OnTheCurve(H_values[i], u_values[i])
      /\ \A i \in 1..GRID_NUM : rat_cmp(H_min, H_values[i]) <= 0
      /\ \E i \in MinimalIndices :
           /\ Equal(u_values[i], u_opt)
           /\ \A j \in MinimalIndices : i <= j
      /\ outcome = "ok"
      /\ Equal(H_current, PlateHeight(current_u, A, B, C))

\* every slider has been moved away from its default
C7_Witness ==
    /\ call = "script"
    /\ A # A_DEFAULT /\ B # B_DEFAULT /\ C # C_DEFAULT /\ current_u # U_DEFAULT
    /\ Equal(H_current, PlateHeight(current_u, A, B, C))

(***************************************************************************)
(* C8, as claimed.  evaluate(u, A, B, C) with u <= 0 ends in an error and  *)
(* never returns a number.                                                 *)
(***************************************************************************)
C8_Original ==
    (ScalarDone /\ current_u <= 0) => (outcome # "ok" /\ ~IsNumber(H_current))

(***************************************************************************)
(* C8, amended.  evaluate(u, A, B, C) on a Python number u = 0 raises      *)
(* ZeroDivisionError and binds no result; on u < 0 it raises nothing and   *)
(* returns the number A + B/u + C*u.                                       *)
(***************************************************************************)
C8_ZeroRaisesNegativeReturns ==
    /\ (ScalarDone /\ current_u = 0) =>
         (outcome = "ZeroDivisionError" /\ H_current = NoValue)
    /\ (ScalarDone /\ current_u < 0) =>
         /\ outcome = "ok"
         /\ IsNumber(H_current)
         /\ Equal(H_current, PlateHeight(current_u, A, B, C))

C8_Witness ==
    /\ ScalarDone /\ current_u = 0 /\ B > 0
    /\ outcome = "ZeroDivisionError" /\ H_current = NoValue

(***************************************************************************)
(* C9.  On the program's grid, for B > 0 and C > 0 with                    *)
(* 1 <= sqrt(B/C) <= 200, u_opt differs from sqrt(B/C) by less than one    *)
(* sample spacing 199/399; for A = 0.5, B = 0.1, C = 0.01, H_min is 0.563  *)
(* to three decimals.  (u_opt - s < sqrt(r) < u_opt + s is stated on the   *)
(* squares.)                                                               *)
(***************************************************************************)
WithinOneSpacing(u, r) ==
    LET s == Rat(GRID_STOP - GRID_START, GRID_NUM - 1)
        lo == rat_sub(u, s)
        hi == rat_add(u, s)
    IN  /\ lo.neg \/ IsZero(lo) \/ rat_cmp(rat_mul(lo, lo), r) < 0
        /\ rat_cmp(r, rat_mul(hi, hi)) < 0

C9_SampledNearAnalytic ==
    (CurveDone /\ grid = ProgramGrid /\ B > 0 /\ C > 0) =>
      LET r == rat_truediv(B_value, C_value)
      IN  /\ (rat_cmp(Rat(1, 1), r) <= 0 /\ rat_cmp(r, Rat(200 * 200, 1)) <= 0) =>
                WithinOneSpacing(u_opt, r)
          /\ (A = 50 /\ B = 10 /\ C = 10) =>
                /\ WithinOneSpacing(u_opt, Rat(10, 1))
                /\ rat_cmp(Rat(5625, 10000), H_min) <= 0
                /\ rat_cmp(H_min, Rat(5635, 10000)) < 0

C9_Witness ==
    /\ CurveDone /\ grid = ProgramGrid /\ A = 50 /\ B = 10 /\ C = 10
    /\ WithinOneSpacing(u_opt, Rat(10, 1))
    /\ rat_cmp(u_opt, Rat(3, 1)) < 0

(***************************************************************************)
(* C10, as claimed.  For every snapshot of the sliders, H_min <= H_current.*)
(***************************************************************************)
C10_Original ==
    call = "script" => rat_cmp(H_min, H_current) <= 0

(***************************************************************************)
(* C10, amended.  H_min <= H_current whenever current_u is one of the      *)
(* curve's samples (on the program's grid: current_u = 1 or 200).          *)
(***************************************************************************)
C10_MinimumBelowSelectedSample ==
    (call = "script" /\ \E i \in 1..Len(u_values) : Equal(u_values[i], Rat(current_u, 1)))
      => rat_cmp(H_min, H_current) <= 0

C10_Witness ==
    /\ call = "script" /\ current_u = U_MAX /\ B > 0
    /\ Equal(u_values[Len(u_values)], Rat(current_u, 1))
    /\ rat_cmp(H_min, H_current) < 0

====
